---------------------------- MODULE Spec2Model ----------------------------
(***************************************************************************)
(* dirstat: concurrent directory walk (internal/dirstat/run.go) feeding a  *)
(* mutex-guarded collector (internal/dirstat/stats.go), called directly or *)
(* by the command line (internal/cli/formatter.go, logic.go).              *)
(*                                                                         *)
(* The sources hold two revisions of the package, and the model carries    *)
(* both, selected by the variable revision:                                *)
(*   "heap": run.go (progress reporter reads the counters with             *)
(*           atomic.LoadInt64, error counter bumped with atomic.AddInt64)  *)
(*           with the container/heap collector (stats.go:208-418);         *)
(*   "sort": unnamed/part_002 (reporter reads under c.mu, addError) with   *)
(*           the append-then-sort collector (stats.go:1-206).              *)
(*                                                                         *)
(* Strings are sequences of one-character strings so that TrimPrefix,      *)
(* HasSuffix, Count, Dir and Ext are computed, not assumed.                *)
(***************************************************************************)
EXTENDS Integers, Sequences, FiniteSets, TLC

(***************************************************************************)
(* Bounds of the model.                                                    *)
(***************************************************************************)
\* number of fastwalk workers (directories listed concurrently)
NumWorkers == 2
\* number of ticker firings the reporter goroutine is followed for
MaxTicks == 2

(***************************************************************************)
(* Program constants.                                                      *)
(***************************************************************************)
DefaultTopN == 20

(***************************************************************************)
(* strings / path/filepath helpers over character sequences                *)
(***************************************************************************)
Sep == "/"

HasPrefix(s, p) ==
    /\ Len(p) <= Len(s)
    /\ SubSeq(s, 1, Len(p)) = p

HasSuffix(s, p) ==
    /\ Len(p) <= Len(s)
    /\ SubSeq(s, Len(s) - Len(p) + 1, Len(s)) = p

TrimPrefix(s, p) ==
    IF HasPrefix(s, p) THEN SubSeq(s, Len(p) + 1, Len(s)) ELSE s

\* strings.Count(s, string(filepath.Separator))
CountSep(s) == Cardinality({i \in 1..Len(s) : s[i] = Sep})

\* strings.Contains
Contains(s, p) ==
    \E i \in 0..(Len(s) - Len(p)) : SubSeq(s, i + 1, i + Len(p)) = p

\* index (1-based) of the last occurrence of character ch in s, 0 if none
LastIndex(s, ch) ==
    IF \E i \in 1..Len(s) : s[i] = ch
    THEN CHOOSE i \in 1..Len(s) :
            /\ s[i] = ch
            /\ \A j \in (i + 1)..Len(s) : s[j] # ch
    ELSE 0

\* filepath.ToSlash: the separator already is "/" on this platform
ToSlash(s) == [i \in 1..Len(s) |-> IF s[i] = Sep THEN "/" ELSE s[i]]

\* filepath.Ext: the suffix beginning at the final dot of the final element
Ext(s) ==
    LET slash == LastIndex(s, Sep)
        dot   == LastIndex(s, ".")
    IN  IF dot > slash THEN SubSeq(s, dot, Len(s)) ELSE << >>

\* filepath.Clean restricted to the shapes fastwalk produces from a clean
\* root: a leading "./" is dropped, the empty path becomes "."
Clean(s) ==
    LET t == IF HasPrefix(s, <<".", Sep>>) THEN SubSeq(s, 3, Len(s)) ELSE s
    IN  IF t = << >> THEN <<".">> ELSE t

\* filepath.Dir: everything before the final separator, cleaned
Dir(s) ==
    LET slash == LastIndex(s, Sep)
    IN  IF slash = 0 THEN <<".">>
        ELSE IF slash = 1 THEN <<Sep>>
        ELSE Clean(SubSeq(s, 1, slash - 1))

(***************************************************************************)
(* container/heap over topHeap (a min-heap on Size).  Indices are 0-based  *)
(* as in the Go code; h[i + 1] is element i.                               *)
(***************************************************************************)
\* variant: the comparison of a max-heap
LessGreater(h, i, j) == h[i + 1].Size > h[j + 1].Size

Less(h, i, j) == h[i + 1].Size < h[j + 1].Size

Swap(h, i, j) == [h EXCEPT ![i + 1] = h[j + 1], ![j + 1] = h[i + 1]]

RECURSIVE up(_, _)
up(h, j) ==
    LET i == IF j = 0 THEN 0 ELSE (j - 1) \div 2
    IN  IF i = j \/ ~Less(h, j, i) THEN h
        ELSE up(Swap(h, i, j), i)

RECURSIVE down(_, _, _)
down(h, i, n) ==
    LET j1 == 2 * i + 1
        j2 == j1 + 1
        j  == IF j2 < n /\ Less(h, j2, j1) THEN j2 ELSE j1
    IN  IF j1 >= n THEN h
        ELSE IF ~Less(h, j, i) THEN h
        ELSE down(Swap(h, i, j), j, n)

\* heap.Push(h, x): append, then sift up
heapPush(h, x) == up(Append(h, x), Len(h))

\* heap.Pop(h): swap root with last, sift down over n-1, cut the last off.
\* heapPopped is the value returned, heapPop the heap left behind.
heapPopped(h) == h[1]

\* variant: the last element is cut off without the swap and sift-down
heapPopNoSwap(h) == SubSeq(h, 1, Len(h) - 1)

heapPop(h) ==
    LET n == Len(h) - 1
    IN  SubSeq(down(Swap(h, 0, n), 0, n), 1, n)

(***************************************************************************)
(* The directory tree under the root, as fastwalk reports it: path is the  *)
(* string handed to the callback, parent the index of the containing       *)
(* directory (0 for the root), walkErr a directory whose listing fails, so *)
(* that fastwalk calls the callback for it a second time with err != nil,  *)
(* infoErr an entry whose d.Info() fails.                                  *)
(***************************************************************************)
VARIABLE fsys   \* which of the trees below the root holds

Entry(p, d, r, sz, par, we, ie) ==
    [path |-> p, isDir |-> d, regular |-> r, size |-> sz, parent |-> par,
     walkErr |-> we, infoErr |-> ie]

\* two directories side by side, equal sizes, a file in the root
FlatTree ==
    << Entry(<<".">>, TRUE, FALSE, 0, 0, FALSE, FALSE),
       Entry(<<".", "/", "a">>, TRUE, FALSE, 0, 1, FALSE, FALSE),
       Entry(<<".", "/", "b">>, TRUE, FALSE, 0, 1, FALSE, FALSE),
       Entry(<<".", "/", "a", "/", "x", ".", "g", "o">>,
             FALSE, TRUE, 5, 2, FALSE, FALSE),
       Entry(<<".", "/", "a", "/", "y", ".", "g", "o">>,
             FALSE, TRUE, 5, 2, FALSE, FALSE),
       Entry(<<".", "/", "b", "/", "z", ".", "t", "x", "t">>,
             FALSE, TRUE, 9, 3, FALSE, FALSE),
       Entry(<<".", "/", "w">>, FALSE, TRUE, 3, 1, FALSE, FALSE),
       Entry(<<".", "/", "b", "/", "e">>, FALSE, TRUE, 7, 3, FALSE, TRUE) >>

\* a directory at depth 2 with files at depth 3
DeepTree ==
    << Entry(<<".">>, TRUE, FALSE, 0, 0, FALSE, FALSE),
       Entry(<<".", "/", "a">>, TRUE, FALSE, 0, 1, FALSE, FALSE),
       Entry(<<".", "/", "a", "/", "s">>, TRUE, FALSE, 0, 2, FALSE, FALSE),
       Entry(<<".", "/", "a", "/", "s", "/", "q", ".", "g", "o">>,
             FALSE, TRUE, 4, 3, FALSE, FALSE),
       Entry(<<".", "/", "a", "/", "x", ".", "g", "o">>,
             FALSE, TRUE, 4, 2, FALSE, FALSE),
       Entry(<<".", "/", "w">>, FALSE, TRUE, 3, 1, FALSE, FALSE),
       Entry(<<".", "/", "a", "/", "s", "/", "e">>,
             FALSE, TRUE, 2, 3, FALSE, TRUE) >>

\* a hidden directory next to one of the same name without the dot, a
\* directory that cannot be listed, and a symbolic link to a directory with
\* the file that is found beneath it when the link is followed
DotTree ==
    << Entry(<<".">>, TRUE, FALSE, 0, 0, FALSE, FALSE),
       Entry(<<".", "/", "a">>, TRUE, FALSE, 0, 1, FALSE, FALSE),
       Entry(<<".", "/", ".", "a">>, TRUE, FALSE, 0, 1, FALSE, FALSE),
       Entry(<<".", "/", "a", "/", "x", ".", "g", "o">>,
             FALSE, TRUE, 4, 2, FALSE, FALSE),
       Entry(<<".", "/", ".", "a", "/", "k", ".", "g", "o">>,
             FALSE, TRUE, 6, 3, FALSE, FALSE),
       Entry(<<".", "/", "d">>, TRUE, FALSE, 0, 1, TRUE, FALSE),
       Entry(<<".", "/", "l">>, FALSE, FALSE, 0, 1, FALSE, FALSE),
       Entry(<<".", "/", "l", "/", "t", ".", "g", "o">>,
             FALSE, TRUE, 8, 7, FALSE, FALSE) >>

\* a source repository: a file in the root, one inside .git next to one
\* whose d.Info() fails, and a directory that cannot be listed
RepoTree ==
    << Entry(<<".">>, TRUE, FALSE, 0, 0, FALSE, FALSE),
       Entry(<<".", "/", ".", "g", "i", "t">>, TRUE, FALSE, 0, 1, FALSE, FALSE),
       Entry(<<".", "/", ".", "g", "i", "t", "/", "c">>,
             FALSE, TRUE, 5, 2, FALSE, FALSE),
       Entry(<<".", "/", "m", ".", "g", "o">>,
             FALSE, TRUE, 9, 1, FALSE, FALSE),
       Entry(<<".", "/", ".", "g", "i", "t", "/", "e">>,
             FALSE, TRUE, 2, 2, FALSE, TRUE),
       Entry(<<".", "/", "n">>, TRUE, FALSE, 0, 1, TRUE, FALSE) >>

FsysChoices == {"flat", "deep", "dot", "repo"}

Tree ==
    IF fsys = "flat" THEN FlatTree
    ELSE IF fsys = "deep" THEN DeepTree
    ELSE IF fsys = "dot" THEN DotTree
    ELSE RepoTree

Entries == 1..Len(Tree)
RootEntry == CHOOSE e \in Entries : Tree[e].parent = 0
Children(d) == {e \in Entries : Tree[e].parent = d}

\* variant: fastwalk follows symbolic links
FollowLinks == TRUE

\* run.go:109-111: fastwalk.Config{Follow: false}
Follow == FALSE

\* what fastwalk lists: the directories, and with Follow the links to them
Dirs == {e \in Entries : Tree[e].isDir \/ (Follow /\ Children(e) # {})}
Files == Entries \ Dirs
FileChildren(d) == {e \in Files : Tree[e].parent = d}

(***************************************************************************)
(* Options (stats.go:282-299) as the caller may pass them.  An exclusion   *)
(* pattern is [ok, lit, atEnd]: regexp.Compile fails iff ~ok; the compiled *)
(* expression is the literal lit, anchored with $ iff atEnd, so it matches *)
(* the paths that end with lit, or that contain lit.                       *)
(***************************************************************************)
RootPath == <<".">>
TopNChoices == {-1, 0, 1, 2}
MinSizeChoices == {0, 4}
DepthChoices == {0, 1, 2}
RootStatChoices == {"dir", "missing", "file"}

Pattern(ok, lit, atEnd) == [ok |-> ok, lit |-> lit, atEnd |-> atEnd]

\* `/w$`, `/s$`: an entry named w or s;  `\.a/`: anything inside a ".a";
\* `[`: not a regular expression
ReW == Pattern(TRUE, <<"/", "w">>, TRUE)
ReS == Pattern(TRUE, <<"/", "s">>, TRUE)
ReDotA == Pattern(TRUE, <<".", "a", "/">>, FALSE)
ReBad == Pattern(FALSE, <<"[">>, FALSE)

\* formatter.go:159-162: `.*\.git/.*` and `.*node_modules/.*`
ReGit == Pattern(TRUE, <<".", "g", "i", "t", "/">>, FALSE)
ReNodeModules ==
    Pattern(TRUE, <<"n", "o", "d", "e", "_", "m", "o", "d", "u", "l", "e", "s",
                    "/">>, FALSE)
DefaultExcludes == <<ReGit, ReNodeModules>>

ExcludeChoices ==
    {<< >>, <<ReW, ReS>>, <<ReDotA>>, <<ReBad>>, DefaultExcludes, <<ReNodeModules>>}

\* The command line as pflag has parsed it (formatter.go:207): whether
\* --exclude was given, and the value of the flag, which is DefaultExcludes
\* when it was not.  NoFlags stands for a caller other than the CLI.
Flags(changed, exclude) == [used |-> TRUE, changed |-> changed, exclude |-> exclude]
NoFlags == [used |-> FALSE, changed |-> FALSE, exclude |-> << >>]
FlagChoices ==
    {NoFlags, Flags(FALSE, DefaultExcludes), Flags(TRUE, <<ReNodeModules>>)}

\* --ext lists: none;  '.go' !x.go;  !.go
ExtGoNotX == << <<"'", ".", "g", "o", "'">>, <<"!", "x", ".", "g", "o">> >>
ExtNotGo == << <<"!", ".", "g", "o">> >>
ExtensionChoices == {<< >>, ExtGoNotX, ExtNotGo}

Options(topN, dirs, minSize, depth, excludes, extensions) ==
    [Path |-> RootPath, Extensions |-> extensions, Excludes |-> excludes,
     MinSize |-> minSize, TopN |-> topN, Depth |-> depth, DirsMode |-> dirs]

ExtStat(cnt, sz) == [Count |-> cnt, Size |-> sz]
FileStat(p, sz) == [Path |-> p, Size |-> sz]
EmptyMap == [k \in {} |-> ExtStat(0, 0)]

\* m[k] of a Go map: the zero value when the key is absent
statOf(m, k) == IF k \in DOMAIN m THEN m[k] ELSE ExtStat(0, 0)
mapPut(m, k, v) == [x \in DOMAIN m \cup {k} |-> IF x = k THEN v ELSE m[x]]

newCollector(topN, directoryMode) ==
    [topN |-> topN, directoryMode |-> directoryMode, extStats |-> EmptyMap,
     topFiles |-> << >>, fileCount |-> 0, totalBytes |-> 0, errorCount |-> 0]

NoStats ==
    [FileCount |-> 0, TotalBytes |-> 0, ExtStats |-> EmptyMap,
     TopFiles |-> << >>, ErrorCount |-> 0, DirectoryMode |-> FALSE, TopN |-> 0]

DirSentinel == <<"D", "I", "R", ":">>

(***************************************************************************)
(* State.                                                                  *)
(***************************************************************************)
VARIABLES
    revision,   \* "heap" (run.go + heap collector) or "sort" (part_002 + sort)
    optArg,     \* the Options value the caller passes to Run
    opt,        \* Run's copy of it; TopN is normalised at run.go:85-87
    hook,       \* progressHook != nil
    flags,      \* the command line, when Run is called by CLI.Execute
    rootStat,   \* what os.Stat(opt.Path) finds: "dir", "file" or "missing"
    runPc,      \* position of the caller and of Run: "cli", "start",
                \* "compile", "walk", "returned"
    c,          \* the collector
    mu,         \* c.mu: 0 when unlocked, else the entry whose add holds it,
                \* or ReporterLock
    pc,         \* per entry: position of its visit callback
    loaded,     \* per entry: totalBytes as read by `c.totalBytes += size`
    walkErr,    \* error a callback returned to fastwalk: "nil" or "Canceled"
    ctxDone,    \* the caller's context has been cancelled
    rpc,        \* reporter goroutine: "off", "select", "loadBytes", "unlock",
                \* "hook", "stopped"
    ticks,      \* ticker firings consumed so far
    sample,     \* <<files, bytes>> read by the reporter for the pending hook call
    result,     \* what Run returned: [kind, stats, err]
    arrival,    \* history: entries in the order their add updated the collector
    commits,    \* history: <<fileCount, totalBytes>> after each completed add
    cancelAt,   \* history: runPc and outstanding work when ctx was cancelled
    finalizeCalls,  \* history: number of calls of collector.finalize
    delivered,  \* history: the <<files, bytes>> of the latest hook call
    stdout      \* the lines PrintTable has written to os.Stdout

vars == <<fsys, revision, optArg, opt, hook, flags, rootStat, runPc, c, mu, pc, loaded,
          walkErr, ctxDone, rpc, ticks, sample, result, arrival, commits,
          cancelAt, finalizeCalls, delivered, stdout>>

config == <<fsys, revision, optArg, hook, flags, rootStat>>
history == <<arrival, commits, cancelAt, finalizeCalls>>
reporter == <<rpc, ticks, sample, delivered>>

\* variant: only the caller's cancellation closes the context
DoneCallerOnly == ctxDone

\* the context derived at run.go:91; `defer cancel()` closes it when Run returns
Done == ctxDone \/ runPc = "returned"

(***************************************************************************)
(* Filter: the visit callback up to its collector call                     *)
(***************************************************************************)
IsQuote(ch) == ch \in {"'", "\""}

\* strings.Trim(e, "'\"")
RECURSIVE TrimQuotes(_)
TrimQuotes(s) ==
    IF s # << >> /\ IsQuote(Head(s)) THEN TrimQuotes(Tail(s))
    ELSE IF s # << >> /\ IsQuote(s[Len(s)])
         THEN TrimQuotes(SubSeq(s, 1, Len(s) - 1))
    ELSE s

extInclude(exts) ==
    {TrimQuotes(exts[i]) :
        i \in {j \in 1..Len(exts) : ~HasPrefix(TrimQuotes(exts[j]), <<"!">>)}}

extExclude(exts) ==
    {TrimPrefix(TrimQuotes(exts[i]), <<"!">>) :
        i \in {j \in 1..Len(exts) : HasPrefix(TrimQuotes(exts[j]), <<"!">>)}}

\* variant: the separators are counted, the first segment is not
calculateDepthSeparators(path, root) ==
    LET relPath == TrimPrefix(TrimPrefix(path, root), <<Sep>>)
    IN  IF relPath = << >> THEN 0 ELSE CountSep(relPath)

calculateDepth(path, root) ==
    LET relPath == TrimPrefix(TrimPrefix(path, root), <<Sep>>)
    IN  IF relPath = << >> THEN 0 ELSE CountSep(relPath) + 1

\* re.MatchString(s) for the expressions of the model
MatchString(re, s) ==
    IF re.atEnd THEN HasSuffix(s, re.lit) ELSE Contains(s, re.lit)

\* variant: no path is ever excluded
shouldExcludeByPatternNever(path, patterns) == FALSE

shouldExcludeByPattern(path, patterns) ==
    \E i \in 1..Len(patterns) : MatchString(patterns[i], ToSlash(path))

\* run.go:211-241: the include list is consulted first, then the exclude list
includeThenExclude(path, include, exclude) ==
    /\ (include # {} => \E ext \in include : HasSuffix(path, ext))
    /\ ~(\E ext \in exclude : HasSuffix(path, ext))

\* variant: a matching include suffix admits the file whatever the excludes
shouldIncludeByExtensionIncludeWins(path, include, exclude) ==
    IF \E ext \in include : HasSuffix(path, ext) THEN TRUE
    ELSE IF \E ext \in exclude : HasSuffix(path, ext) THEN FALSE
    ELSE include = {}

\* part_002:63-82: the exclude list is consulted first
shouldIncludeByExtension(path, include, exclude) ==
    IF \E ext \in exclude : HasSuffix(path, ext) THEN FALSE
    ELSE IF include = {} THEN TRUE
    ELSE \E ext \in include : HasSuffix(path, ext)

extensionAdmits(rev, path, o) ==
    IF rev = "heap"
    THEN includeThenExclude(path, extInclude(o.Extensions), extExclude(o.Extensions))
    ELSE shouldIncludeByExtension(path, extInclude(o.Extensions),
                                  extExclude(o.Extensions))

\* run.go:246-252: the directory of the file, made relative to the root
relDir(path, root) ==
    LET r == TrimPrefix(TrimPrefix(Dir(path), root), <<Sep>>)
    IN  IF r = << >> THEN <<".">> ELSE r

\* part_002:301-345 for a relative root inside the working directory:
\* filepath.Rel(cwd, p) fails on a relative p, so displayPath falls back to p
displayPath(p) == p

\* variant: a file as small as the floor is rejected too
belowMinSizeInclusive(size, minSize) == size <= minSize

\* run.go:207-209: fileInfo.Size() < opt.MinSize
belowMinSize(size, minSize) == size < minSize

Outcome(ret, act, path, size, ext) ==
    [ret |-> ret, act |-> act, path |-> path, size |-> size, ext |-> ext]

\* The callback passed to fastwalk.Walk, for entry e, called with err != nil
\* or not, when the derived context is done or not: what it returns and
\* which collector call it makes.
\* variant: the maximum depth itself is already too deep
beyondDepthInclusive(currentDepth, maxDepth) ==
    maxDepth > 0 /\ currentDepth >= maxDepth

\* run.go:156: if opt.Depth > 0 && currentDepth > opt.Depth
beyondDepth(currentDepth, maxDepth) ==
    maxDepth > 0 /\ currentDepth > maxDepth

\* variant: the metadata is read before the depth, pattern and type rules
callbackInfoFirst(rev, o, e, err, done) ==
    LET ent  == Tree[e]
        path == ent.path
        skip(ret) == Outcome(ret, "none", << >>, 0, << >>)
    IN  IF err THEN skip("nil")
        ELSE IF done THEN skip("Canceled")
        ELSE IF ent.infoErr THEN Outcome("nil", "addError", << >>, 0, << >>)
        ELSE IF beyondDepth(calculateDepth(path, o.Path), o.Depth)
             THEN (IF ent.isDir THEN skip("SkipDir") ELSE skip("nil"))
        ELSE IF shouldExcludeByPattern(path, o.Excludes)
             THEN (IF ent.isDir THEN skip("SkipDir") ELSE skip("nil"))
        ELSE IF ent.isDir THEN skip("nil")
        ELSE IF ~ent.regular THEN skip("nil")
        ELSE IF belowMinSize(ent.size, o.MinSize) THEN skip("nil")
        ELSE IF ~extensionAdmits(rev, path, o) THEN skip("nil")
        ELSE IF o.DirsMode
             THEN Outcome("nil", "add",
                          IF rev = "heap" THEN relDir(path, o.Path)
                                          ELSE displayPath(Dir(path)),
                          ent.size, DirSentinel)
        ELSE Outcome("nil", "add",
                     IF rev = "heap" THEN path ELSE displayPath(path),
                     ent.size, Ext(path))

callback(rev, o, e, err, done) ==
    LET ent  == Tree[e]
        path == ent.path
        skip(ret) == Outcome(ret, "none", << >>, 0, << >>)
    IN  IF err THEN skip("nil")
        ELSE IF done THEN skip("Canceled")
        ELSE IF beyondDepth(calculateDepth(path, o.Path), o.Depth)
             THEN (IF ent.isDir THEN skip("SkipDir") ELSE skip("nil"))
        ELSE IF shouldExcludeByPattern(path, o.Excludes)
             THEN (IF ent.isDir THEN skip("SkipDir") ELSE skip("nil"))
        ELSE IF ent.isDir THEN skip("nil")
        ELSE IF ~ent.regular THEN skip("nil")
        ELSE IF ent.infoErr THEN Outcome("nil", "addError", << >>, 0, << >>)
        ELSE IF belowMinSize(ent.size, o.MinSize) THEN skip("nil")
        ELSE IF ~extensionAdmits(rev, path, o) THEN skip("nil")
        ELSE IF o.DirsMode
             THEN Outcome("nil", "add",
                          IF rev = "heap" THEN relDir(path, o.Path)
                                          ELSE displayPath(Dir(path)),
                          ent.size, DirSentinel)
        ELSE Outcome("nil", "add",
                     IF rev = "heap" THEN path ELSE displayPath(path),
                     ent.size, Ext(path))

(***************************************************************************)
(* Collector                                                               *)
(***************************************************************************)
\* variant: a lock that excludes nobody
canLockAlways == TRUE

\* c.mu.Lock() can proceed only while nobody holds the mutex
canLock == mu = 0

\* the value of mu while the reporter goroutine holds c.mu
ReporterLock == -1

\* variant: a full structure never takes a new entry
pushTopNeverEvict(h, topN, x) ==
    IF Len(h) < topN THEN heapPush(h, x) ELSE h

\* variant: a candidate equal to the minimum evicts it
pushTopEvictOnTie(h, topN, x) ==
    IF Len(h) < topN THEN heapPush(h, x)
    ELSE IF x.Size >= h[1].Size THEN heapPush(heapPop(h), x)
    ELSE h

\* variant: the structure is allowed one entry more than topN
pushTopOneMore(h, topN, x) ==
    IF Len(h) <= topN THEN heapPush(h, x)
    ELSE IF x.Size > h[1].Size THEN heapPush(heapPop(h), x)
    ELSE h

\* stats.go:350-356: bounded min-heap update of the "heap" revision
pushTop(h, topN, x) ==
    IF Len(h) < topN THEN heapPush(h, x)
    ELSE IF x.Size > h[1].Size THEN heapPush(heapPop(h), x)
    ELSE h

\* stats.go:132-133: the "sort" revision collects every file
appendTop(h, topN, x) == Append(h, x)

updateTop(rev, h, topN, x) ==
    IF rev = "heap" THEN pushTop(h, topN, x) ELSE appendTop(h, topN, x)

\* variant: the file count restarts with every category
addStatCountsPerCategory(rev, col, path, size, ext) ==
    LET key  == IF ext = DirSentinel THEN path ELSE ext
        stat == statOf(col.extStats, key)
    IN  [col EXCEPT
           !.fileCount = stat.Count + 1,
           !.extStats = mapPut(@, key, ExtStat(stat.Count + 1, stat.Size + size)),
           !.topFiles = IF ext = DirSentinel THEN @
                        ELSE updateTop(rev, @, col.topN, FileStat(path, size))]

\* variant: the size is recorded only when the category entry is created
addStatFirstSizeOnly(rev, col, path, size, ext) ==
    LET key  == IF ext = DirSentinel THEN path ELSE ext
        stat == statOf(col.extStats, key)
    IN  [col EXCEPT
           !.fileCount = IF ext = DirSentinel /\ stat.Count # 0 THEN @ ELSE @ + 1,
           !.extStats = mapPut(@, key,
                               ExtStat(stat.Count + 1,
                                       IF stat.Count = 0 THEN size ELSE stat.Size)),
           !.topFiles = IF ext = DirSentinel THEN @
                        ELSE updateTop(rev, @, col.topN, FileStat(path, size))]

\* variant: in directory mode every file is counted, not every directory
addStatCountsEveryFile(rev, col, path, size, ext) ==
    LET key  == IF ext = DirSentinel THEN path ELSE ext
        stat == statOf(col.extStats, key)
    IN  [col EXCEPT
           !.fileCount = @ + 1,
           !.extStats = mapPut(@, key, ExtStat(stat.Count + 1, stat.Size + size)),
           !.topFiles = IF ext = DirSentinel THEN @
                        ELSE updateTop(rev, @, col.topN, FileStat(path, size))]

\* add after `c.totalBytes += size`: stats.go:333-357 / stats.go:115-134
addStat(rev, col, path, size, ext) ==
    IF ext = DirSentinel
    THEN LET stat == statOf(col.extStats, path)
         IN  [col EXCEPT
                !.fileCount = IF stat.Count = 0 THEN @ + 1 ELSE @,
                !.extStats = mapPut(@, path,
                                    ExtStat(stat.Count + 1, stat.Size + size))]
    ELSE LET stat == statOf(col.extStats, ext)
         IN  [col EXCEPT
                !.fileCount = @ + 1,
                !.extStats = mapPut(@, ext,
                                    ExtStat(stat.Count + 1, stat.Size + size)),
                !.topFiles = updateTop(rev, @, col.topN, FileStat(path, size))]

\* repeated heap.Pop into a slice: stats.go:383-386 and 394-397
RECURSIVE drain(_)
drain(h) ==
    IF h = << >> THEN << >> ELSE <<heapPopped(h)>> \o drain(heapPop(h))

Range(s) == {s[i] : i \in 1..Len(s)}
Perms(S) ==
    {p \in [1..Cardinality(S) -> S] : \A i, j \in DOMAIN p : i # j => p[i] # p[j]}
Reverse(s) == [i \in 1..Len(s) |-> s[Len(s) + 1 - i]]
Min(a, b) == IF a < b THEN a ELSE b

\* sort.Slice(x, func(i, j) { return x[i].Size > x[j].Size }): not stable, so
\* any arrangement of S that is non-increasing in Size may come out
sortedDesc(S) ==
    {p \in Perms(S) : \A i, j \in DOMAIN p : i < j => p[i].Size >= p[j].Size}

\* stats.go:373-381: push the directories in the map's iteration order
RECURSIVE buildDirHeap(_, _, _, _)
buildDirHeap(m, order, i, topN) ==
    IF i = 0 THEN << >>
    ELSE pushTop(buildDirHeap(m, order, i - 1, topN), topN,
                 FileStat(order[i], m[order[i]].Size))

\* stats.go:402-407: slash form without the leading "./"
cleanPaths(tf) ==
    [i \in 1..Len(tf) |->
        FileStat(TrimPrefix(ToSlash(tf[i].Path), <<".", "/">>), tf[i].Size)]

makeStats(col, fileCount, extStats, topFiles) ==
    [FileCount |-> fileCount, TotalBytes |-> col.totalBytes,
     ExtStats |-> extStats, TopFiles |-> cleanPaths(topFiles),
     ErrorCount |-> col.errorCount, DirectoryMode |-> col.directoryMode,
     TopN |-> col.topN]

\* finalize of the "heap" revision (stats.go:363-418): the Stats it may
\* return together with the collector it leaves behind
finalizeHeap(col) ==
    IF col.directoryMode
    THEN {[stats |-> makeStats(col, Cardinality(DOMAIN col.extStats), EmptyMap,
                               top),
           col |-> col] :
             top \in {drain(buildDirHeap(col.extStats, order, Len(order),
                                         col.topN)) :
                         order \in Perms(DOMAIN col.extStats)}}
    ELSE {[stats |-> makeStats(col, col.fileCount, col.extStats, top),
           col |-> [col EXCEPT !.topFiles = << >>]] :
             top \in {drain(col.topFiles)}}

\* finalize of the "sort" revision (stats.go:140-206)
finalizeSort(col) ==
    IF col.directoryMode
    THEN {[stats |-> makeStats(col, Cardinality(DOMAIN col.extStats), EmptyMap,
                        Reverse(SubSeq(s, 1, Min(Len(s), col.topN)))),
           col |-> col] :
             s \in sortedDesc({FileStat(k, col.extStats[k].Size) :
                                 k \in DOMAIN col.extStats})}
    ELSE {[stats |-> makeStats(col, col.fileCount, col.extStats,
                        Reverse(SubSeq(s, 1, Min(Len(s), col.topN)))),
           col |-> [col EXCEPT !.topFiles = SubSeq(s, 1, Min(Len(s), col.topN))]] :
             s \in sortedDesc(Range(col.topFiles))}

\* variant: finalize also resets the file counter
finalizeResetsCount(rev, col) ==
    {[stats |-> fin.stats, col |-> [fin.col EXCEPT !.fileCount = 0]] :
        fin \in IF rev = "heap" THEN finalizeHeap(col) ELSE finalizeSort(col)}

finalize(rev, col) == IF rev = "heap" THEN finalizeHeap(col) ELSE finalizeSort(col)

(***************************************************************************)
(* Init: Run has been called, nothing has executed yet.                    *)
(***************************************************************************)
\* The combinations of inputs that are explored: the failing roots are
\* combined with one setting of the filters only, a walk with a progress
\* hook is followed on the repository tree, and the CLI is run there.
Explored(fs, o, h, rs, fl) ==
    /\ h => (o.MinSize = 0 /\ o.TopN = 2)
    /\ rs # "dir" => (o.MinSize = 0 /\ o.TopN = 2 /\ ~o.DirsMode)
    /\ fs = "flat" =>
          /\ o.Depth = 0 /\ o.Excludes = << >> /\ o.Extensions = << >>
          /\ h => rs # "dir"
    /\ fs = "deep" =>
          /\ rs = "dir" /\ o.TopN = 2
          /\ o.Excludes \in {<< >>, <<ReW, ReS>>, <<ReBad>>}
          /\ o.Excludes = <<ReBad>> =>
                (o.Depth = 0 /\ o.Extensions = << >> /\ ~o.DirsMode)
          /\ o.Excludes # <<ReBad>> => ~h
    /\ fs = "dot" =>
          /\ rs = "dir" /\ ~h /\ o.TopN = 2 /\ o.MinSize = 0
          /\ o.Depth = 0 /\ o.Extensions = << >>
          /\ o.Excludes \in {<< >>, <<ReDotA>>}
    /\ fs = "repo" =>
          /\ rs = "dir" /\ o.TopN = 2 /\ o.MinSize = 0
          /\ o.Depth = 0 /\ o.Extensions = << >>
          /\ ~fl.used => o.Excludes = << >>
    /\ fl.used => (fs = "repo" /\ o.Excludes = fl.exclude)
    /\ o.Excludes \in {DefaultExcludes, <<ReNodeModules>>} => fl.used

NoResult == [kind |-> "none", stats |-> NoStats, err |-> "nil"]

Init ==
    /\ fsys \in FsysChoices
    /\ revision \in {"heap", "sort"}
    /\ optArg \in {Options(t, d, m, dep, exc, ext) :
                    t \in TopNChoices, d \in BOOLEAN, m \in MinSizeChoices,
                    dep \in DepthChoices, exc \in ExcludeChoices,
                    ext \in ExtensionChoices}
    /\ opt = optArg
    /\ hook \in BOOLEAN
    /\ flags \in FlagChoices
    /\ rootStat \in RootStatChoices
    /\ Explored(fsys, optArg, hook, rootStat, flags)
    /\ runPc = IF flags.used THEN "cli" ELSE "start"
    /\ c = newCollector(0, FALSE)
    /\ mu = 0
    /\ pc = [e \in Entries |-> "wait"]
    /\ loaded = [e \in Entries |-> 0]
    /\ walkErr = "nil"
    /\ ctxDone = FALSE
    /\ rpc = "off"
    /\ ticks = 0
    /\ sample = <<0, 0>>
    /\ result = NoResult
    /\ arrival = << >>
    /\ commits = {<<0, 0>>}
    /\ cancelAt = "never"
    /\ finalizeCalls = 0
    /\ delivered = <<0, 0>>
    /\ stdout = << >>

(***************************************************************************)
(* CLI.Execute (formatter.go:166-267) and logic (logic.go:19-37)           *)
(***************************************************************************)
\* variant: directory mode clears the patterns the user gave as well
clearDefaultExcludesInDirsMode(changed, dirs, excludes) ==
    IF dirs THEN << >> ELSE excludes

\* formatter.go:261-264, part_001:102-105
clearDefaultExcludes(changed, dirs, excludes) ==
    IF ~changed /\ dirs THEN << >> ELSE excludes

\* Execute adjusts the parsed options and logic passes them to Run
CliExecute ==
    /\ runPc = "cli"
    /\ optArg' = [optArg EXCEPT
                    !.Excludes = clearDefaultExcludes(flags.changed,
                                                      optArg.DirsMode, @)]
    /\ opt' = optArg'
    /\ runPc' = "start"
    /\ UNCHANGED <<fsys, revision, hook, flags, rootStat, c, mu, pc, loaded,
                   walkErr, ctxDone, reporter, result, history, stdout>>

(***************************************************************************)
(* Run (run.go:55-268, part_002:128-362)                                   *)
(***************************************************************************)
\* variant: only a negative TopN is replaced
effectiveTopNNegativeOnly(n) == IF n < 0 THEN DefaultTopN ELSE n

\* run.go:85-87
effectiveTopN(n) == IF n <= 0 THEN DefaultTopN ELSE n

\* variant: the reporter goroutine is started whether or not a hook is given
startProgressReporterAlways(h) == "select"

\* run.go:21-42: without a hook startProgressReporter returns at once; with
\* one it starts the goroutine, which waits in its select
startProgressReporter(h) == IF h THEN "select" ELSE "off"

\* run.go:57-95: validate the root, normalise TopN, build the collector,
\* derive the context and start the progress reporter
RunValidate ==
    /\ runPc = "start"
    /\ IF rootStat # "dir"
       THEN /\ runPc' = "returned"
            /\ result' = [NoResult EXCEPT !.kind = "error",
                             !.err = IF rootStat = "missing" THEN "accessing path"
                                     ELSE "not a directory"]
            /\ UNCHANGED <<opt, c, rpc>>
       ELSE /\ opt' = [opt EXCEPT !.TopN = effectiveTopN(@)]
            /\ c' = newCollector(opt'.TopN, opt.DirsMode)
            /\ rpc' = startProgressReporter(hook)
            /\ runPc' = "compile"
            /\ UNCHANGED result
    /\ UNCHANGED <<config, stdout, mu, pc, loaded, walkErr, ctxDone, ticks, sample,
                   history, delivered>>

\* variant: every pattern is taken to compile
compileFailsNever(patterns) == FALSE

\* run.go:98-104: regexp.Compile returns an error for one of the patterns
compileFails(patterns) == \E i \in 1..Len(patterns) : ~patterns[i].ok

\* run.go:97-131: compile the exclusion patterns, then hand the root to fastwalk
RunCompile ==
    /\ runPc = "compile"
    /\ IF compileFails(opt.Excludes)
       THEN /\ runPc' = "returned"
            /\ result' = [NoResult EXCEPT !.kind = "error",
                                          !.err = "compiling exclusion pattern"]
            /\ UNCHANGED pc
       ELSE /\ runPc' = "walk"
            /\ pc' = [pc EXCEPT ![RootEntry] = "queued"]
            /\ UNCHANGED result
    /\ UNCHANGED <<config, stdout, opt, c, mu, loaded, walkErr, ctxDone, reporter,
                   history>>

(***************************************************************************)
(* fastwalk.Walk (run.go:131): a worker takes a queued directory, calls    *)
(* the callback for it, lists it, calls the callback for its non-directory *)
(* children one after the other and queues its subdirectories.             *)
(***************************************************************************)
InCallback(e) == pc[e] \in {"addError", "lock", "load", "store", "stat", "unlock"}

\* a worker is still busy with directory d: its listing failed and the
\* second callback is due, or children are left to report
busy(d) ==
    \/ pc[d] = "readErr"
    \/ pc[d] = "open" /\ \E f \in FileChildren(d) : pc[f] # "done"

workersBusy == Cardinality({d \in Dirs : busy(d)})

\* variant: the walk is never seen to be over
QuiescentNever == FALSE

\* variant: the walk is taken to be over at any moment
QuiescentAnytime == TRUE

\* nothing is queued and no callback is running
Quiescent ==
    /\ pc[RootEntry] # "wait"
    /\ \A e \in Entries : pc[e] \in {"wait", "open", "done", "aborted"}
    /\ \A d \in Dirs : ~busy(d)

VisitDir(d) ==
    /\ d \in Dirs
    /\ pc[d] = "queued"
    /\ workersBusy < NumWorkers
    /\ \E out \in {callback(revision, opt, d, FALSE, Done)} :
          \E descend \in {out.ret = "nil" /\ ~Tree[d].walkErr} :
             /\ pc' = [e \in Entries |->
                         IF e = d
                         THEN (IF descend THEN "open"
                               ELSE IF out.ret = "nil" THEN "readErr"
                               ELSE "done")
                         ELSE IF descend /\ e \in Children(d) THEN "queued"
                         ELSE pc[e]]
             /\ walkErr' = IF out.ret = "Canceled" THEN "Canceled" ELSE walkErr
    /\ UNCHANGED <<config, stdout, opt, runPc, c, mu, loaded, ctxDone, reporter, result,
                   history>>

\* fastwalk reports the failed listing of d: the callback again, err != nil
VisitDirError(d) ==
    /\ d \in Dirs
    /\ pc[d] = "readErr"
    /\ \E out \in {callback(revision, opt, d, TRUE, Done)} :
          /\ pc' = [pc EXCEPT ![d] = "done"]
          /\ walkErr' = IF out.ret = "Canceled" THEN "Canceled" ELSE walkErr
    /\ UNCHANGED <<config, stdout, opt, runPc, c, mu, loaded, ctxDone, reporter, result,
                   history>>

VisitFile(f) ==
    /\ f \in Files
    /\ pc[f] = "queued"
    /\ pc[Tree[f].parent] = "open"
    /\ \A g \in FileChildren(Tree[f].parent) : ~InCallback(g)
    /\ \E out \in {callback(revision, opt, f, FALSE, Done)} :
          /\ pc' = [pc EXCEPT
                      ![f] = IF out.act = "add" THEN "lock"
                             ELSE IF out.act = "addError" THEN "addError"
                             ELSE "done",
                      ![Tree[f].parent] =
                             IF out.ret = "Canceled" THEN "aborted" ELSE @]
          /\ walkErr' = IF out.ret = "Canceled" THEN "Canceled" ELSE walkErr
    /\ UNCHANGED <<config, stdout, opt, runPc, c, mu, loaded, ctxDone, reporter, result,
                   history>>

\* run.go:203 atomic.AddInt64(&collector.errorCount, 1), no lock taken;
\* part_002:282 collector.addError() (stats.go:99-103), under c.mu
AddError(f) ==
    /\ pc[f] = "addError"
    /\ revision = "sort" => canLock
    /\ c' = [c EXCEPT !.errorCount = @ + 1]
    /\ pc' = [pc EXCEPT ![f] = "done"]
    /\ UNCHANGED <<config, stdout, opt, runPc, mu, loaded, walkErr, ctxDone, reporter,
                   result, history>>

\* collector.add, stats.go:329: c.mu.Lock()
AddLock(f) ==
    /\ pc[f] = "lock"
    /\ canLock
    /\ mu' = f
    /\ pc' = [pc EXCEPT ![f] = "load"]
    /\ UNCHANGED <<config, stdout, opt, runPc, c, loaded, walkErr, ctxDone, reporter,
                   result, history>>

\* stats.go:332 `c.totalBytes += size`, the read
AddLoad(f) ==
    /\ pc[f] = "load"
    /\ loaded' = [loaded EXCEPT ![f] = c.totalBytes]
    /\ pc' = [pc EXCEPT ![f] = "store"]
    /\ UNCHANGED <<config, stdout, opt, runPc, c, mu, walkErr, ctxDone, reporter,
                   result, history>>

\* stats.go:332 `c.totalBytes += size`, the write
AddStore(f) ==
    /\ pc[f] = "store"
    /\ c' = [c EXCEPT !.totalBytes =
                loaded[f] + callback(revision, opt, f, FALSE, FALSE).size]
    /\ loaded' = [loaded EXCEPT ![f] = 0]
    /\ pc' = [pc EXCEPT ![f] = "stat"]
    /\ UNCHANGED <<config, stdout, opt, runPc, mu, walkErr, ctxDone, reporter, result,
                   history>>

\* stats.go:333-357: file count, category entry, top-N structure
AddStat(f) ==
    /\ pc[f] = "stat"
    /\ \E a \in {callback(revision, opt, f, FALSE, FALSE)} :
          c' = addStat(revision, c, a.path, a.size, a.ext)
    /\ arrival' = Append(arrival, f)
    /\ pc' = [pc EXCEPT ![f] = "unlock"]
    /\ UNCHANGED <<config, stdout, opt, runPc, mu, loaded, walkErr, ctxDone, reporter,
                   result, commits, cancelAt, finalizeCalls>>

\* stats.go:330: the deferred c.mu.Unlock(); the callback then returns nil
AddUnlock(f) ==
    /\ pc[f] = "unlock"
    /\ mu' = 0
    /\ commits' = commits \cup {<<c.fileCount, c.totalBytes>>}
    /\ pc' = [pc EXCEPT ![f] = "done"]
    /\ UNCHANGED <<config, stdout, opt, runPc, c, loaded, walkErr, ctxDone, reporter,
                   result, arrival, cancelAt, finalizeCalls>>

\* run.go:262-267 on walkErr == nil: finalize and return the Stats
RunFinalize ==
    /\ runPc = "walk"
    /\ walkErr = "nil"
    /\ Quiescent
    /\ canLock
    /\ \E fin \in finalize(revision, c) :
          /\ c' = fin.col
          /\ result' = [NoResult EXCEPT !.kind = "stats", !.stats = fin.stats]
    /\ finalizeCalls' = finalizeCalls + 1
    /\ runPc' = "returned"
    /\ UNCHANGED <<config, stdout, opt, mu, pc, loaded, walkErr, ctxDone, reporter,
                   arrival, commits, cancelAt>>

\* run.go:262-264: fastwalk.Walk returned the error of a callback
RunFail ==
    /\ runPc = "walk"
    /\ walkErr # "nil"
    /\ result' = [NoResult EXCEPT !.kind = "error", !.err = walkErr]
    /\ runPc' = "returned"
    /\ UNCHANGED <<config, stdout, opt, c, mu, pc, loaded, walkErr, ctxDone, reporter,
                   history>>

\* the caller cancels the context it passed to Run; the CLI passes
\* context.Background() (logic.go:20), which is never cancelled
Cancel ==
    /\ ~flags.used
    /\ ~ctxDone
    /\ runPc # "returned"
    /\ ctxDone' = TRUE
    /\ cancelAt' = IF runPc = "walk" /\ ~Quiescent THEN "midwalk" ELSE runPc
    /\ UNCHANGED <<config, stdout, opt, runPc, c, mu, pc, loaded, walkErr, reporter,
                   result, arrival, commits, finalizeCalls>>

(***************************************************************************)
(* startProgressReporter: the goroutine's select loop                      *)
(***************************************************************************)
\* run.go:33-34: the ticker fires; files := atomic.LoadInt64(&c.fileCount)
ReporterLoadFiles ==
    /\ revision = "heap"
    /\ rpc = "select"
    /\ ticks < MaxTicks
    /\ ticks' = ticks + 1
    /\ sample' = <<c.fileCount, sample[2]>>
    /\ rpc' = "loadBytes"
    /\ UNCHANGED <<config, stdout, opt, runPc, c, mu, pc, loaded, walkErr, ctxDone,
                   result, history, delivered>>

\* run.go:35: bytes := atomic.LoadInt64(&c.totalBytes)
ReporterLoadBytes ==
    /\ rpc = "loadBytes"
    /\ sample' = <<sample[1], c.totalBytes>>
    /\ rpc' = "hook"
    /\ UNCHANGED <<config, stdout, opt, runPc, c, mu, pc, loaded, walkErr, ctxDone,
                   ticks, result, history, delivered>>

\* part_002:103-106: the ticker fires; c.mu.Lock() and both counters are read
ReporterLockedRead ==
    /\ revision = "sort"
    /\ rpc = "select"
    /\ ticks < MaxTicks
    /\ canLock
    /\ mu' = ReporterLock
    /\ ticks' = ticks + 1
    /\ sample' = <<c.fileCount, c.totalBytes>>
    /\ rpc' = "unlock"
    /\ UNCHANGED <<config, stdout, opt, runPc, c, pc, loaded, walkErr, ctxDone,
                   result, history, delivered>>

\* variant: the lock is still held when the hook is called
ReporterUnlockKeepsLock ==
    /\ rpc = "unlock"
    /\ rpc' = "hook"
    /\ UNCHANGED <<config, stdout, opt, runPc, c, mu, pc, loaded, walkErr, ctxDone,
                   ticks, sample, result, history, delivered>>

\* part_002:107: c.mu.Unlock(), before the hook is called
ReporterUnlock ==
    /\ rpc = "unlock"
    /\ mu' = 0
    /\ rpc' = "hook"
    /\ UNCHANGED <<config, stdout, opt, runPc, c, pc, loaded, walkErr, ctxDone,
                   ticks, sample, result, history, delivered>>

\* variant: a tick restarts the counters it has reported
ReporterHookResets ==
    /\ rpc = "hook"
    /\ delivered' = sample
    /\ sample' = <<0, 0>>
    /\ rpc' = "select"
    /\ c' = [c EXCEPT !.fileCount = 0, !.totalBytes = 0]
    /\ UNCHANGED <<config, stdout, opt, runPc, mu, pc, loaded, walkErr, ctxDone,
                   ticks, result, history>>

\* run.go:36 / part_002:109: hook(files, bytes) is called with the sample and
\* returns; files and bytes go out of scope
ReporterHook ==
    /\ rpc = "hook"
    /\ delivered' = sample
    /\ sample' = <<0, 0>>
    /\ rpc' = "select"
    /\ UNCHANGED <<config, stdout, opt, runPc, c, mu, pc, loaded, walkErr, ctxDone,
                   ticks, result, history>>

\* run.go:37-38: case <-ctx.Done(): return
ReporterStop ==
    /\ rpc = "select"
    /\ Done
    /\ rpc' = "stopped"
    /\ UNCHANGED <<config, stdout, opt, runPc, c, mu, pc, loaded, walkErr, ctxDone,
                   ticks, sample, result, history, delivered>>

(***************************************************************************)
(* Table output (formatter.go:37-132).  A line is kept as its fields: the  *)
(* number printed before it, its label, the file count, the byte count     *)
(* and the share of the total as the fraction 100 * size / total.  The     *)
(* text form of the byte counts and of the share and the elapsed time are  *)
(* left out.                                                               *)
(***************************************************************************)
Line(kind, n, name, count, size, share) ==
    [kind |-> kind, rank |-> n, name |-> name, count |-> count, size |-> size,
     pct |-> share]
Header(text) == Line(text, 0, << >>, 0, 0, <<0, 1>>)

\* formatter.go:64-68, 99-103: pct stays 0.0 unless stats.TotalBytes > 0
pct(size, total) == IF total > 0 THEN <<100 * size, total>> ELSE <<0, 1>>

\* formatter.go:70-72: the empty extension is printed as two double quotes
extLabel(ext) == IF ext = << >> THEN <<"\"", "\"">> ELSE ext

\* variant: the lines are numbered from the first one down
rankFromStart(len, i) == i + 1

\* formatter.go:77, 108: len(displayList)-i and len(stats.TopFiles)-i
rank(len, i) == len - i

\* formatter.go:46-53: the keys in the map's iteration order, then
\* sort.Slice by ascending Size, which is not stable
sortedAsc(m) ==
    {l \in Perms(DOMAIN m) :
        \A i, j \in DOMAIN l : i < j => m[l[i]].Size <= m[l[j]].Size}

\* formatter.go:55-61: extList[startIdx:]
displayList(extList, topN) ==
    LET startIdx == IF Len(extList) > topN THEN Len(extList) - topN ELSE 0
    IN  SubSeq(extList, startIdx + 1, Len(extList))

\* the outputs PrintTable may write for stats, one for each order the map
\* iteration and the sort may produce
PrintTable(stats) ==
    LET extLines(dl) ==
            [i \in 1..Len(dl) |->
                Line("ext", rank(Len(dl), i - 1), extLabel(dl[i]),
                     stats.ExtStats[dl[i]].Count, stats.ExtStats[dl[i]].Size,
                     pct(stats.ExtStats[dl[i]].Size, stats.TotalBytes))]
        topLines ==
            [i \in 1..Len(stats.TopFiles) |->
                Line("top", rank(Len(stats.TopFiles), i - 1),
                     stats.TopFiles[i].Path, 0, stats.TopFiles[i].Size,
                     pct(stats.TopFiles[i].Size, stats.TotalBytes))]
        rest ==
            <<Header(IF stats.DirectoryMode THEN "Top directories:"
                     ELSE "Top files:")>>
            \o topLines
            \o <<Header("Stats:"),
                 Line(IF stats.DirectoryMode THEN "Total directories:"
                      ELSE "Total files:", 0, << >>, stats.FileCount, 0, <<0, 1>>),
                 Line("Total size:", 0, << >>, 0, stats.TotalBytes, <<0, 1>>)>>
    IN  IF ~stats.DirectoryMode
        THEN {<<Header("Top extensions:")>>
                \o extLines(displayList(extList, stats.TopN)) \o rest :
                  extList \in sortedAsc(stats.ExtStats)}
        ELSE {rest}

\* logic.go:37-52: Run has returned Stats and the caller prints the table
LogicPrintTable ==
    /\ runPc = "returned"
    /\ result.kind = "stats"
    /\ stdout = << >>
    /\ stdout' \in PrintTable(result.stats)
    /\ UNCHANGED <<config, opt, runPc, c, mu, pc, loaded, walkErr, ctxDone,
                   reporter, result, history>>

Next ==
    \/ CliExecute
    \/ RunValidate
    \/ RunCompile
    \/ \E d \in Dirs : VisitDir(d)
    \/ \E d \in Dirs : VisitDirError(d)
    \/ \E f \in Files : VisitFile(f)
    \/ \E f \in Files : AddError(f)
    \/ \E f \in Files : AddLock(f)
    \/ \E f \in Files : AddLoad(f)
    \/ \E f \in Files : AddStore(f)
    \/ \E f \in Files : AddStat(f)
    \/ \E f \in Files : AddUnlock(f)
    \/ RunFinalize
    \/ RunFail
    \/ Cancel
    \/ ReporterLoadFiles
    \/ ReporterLoadBytes
    \/ ReporterLockedRead
    \/ ReporterUnlock
    \/ ReporterHook
    \/ ReporterStop
    \/ LogicPrintTable

Spec == Init /\ [][Next]_vars

\* the steps of Run, of the fastwalk workers and of their callbacks
WalkerStep ==
    \/ CliExecute
    \/ RunValidate
    \/ RunCompile
    \/ \E d \in Dirs : VisitDir(d)
    \/ \E d \in Dirs : VisitDirError(d)
    \/ \E f \in Files : VisitFile(f)
    \/ \E f \in Files : AddError(f)
    \/ \E f \in Files : AddLock(f)
    \/ \E f \in Files : AddLoad(f)
    \/ \E f \in Files : AddStore(f)
    \/ \E f \in Files : AddStat(f)
    \/ \E f \in Files : AddUnlock(f)
    \/ RunFinalize
    \/ RunFail

\* the reporter's own code between a tick and the call of the hook, and
\* its return on ctx.Done()
ReporterOwnStep == ReporterLoadBytes \/ ReporterUnlock \/ ReporterStop

\* the runs that are given a progress hook
InitHook == Init /\ hook

\* The goroutines are scheduled; the ticker need not fire, the caller need
\* not cancel, and a call of the hook need not return.
SpecHookMayBlock ==
    InitHook /\ [][Next]_vars /\ WF_vars(WalkerStep \/ ReporterOwnStep)

\* The same, with every call of the hook returning.
SpecHookReturns ==
    InitHook /\ [][Next]_vars
             /\ WF_vars(WalkerStep \/ ReporterOwnStep \/ ReporterHook)

(***************************************************************************)
(* Vocabulary of the properties                                            *)
(***************************************************************************)
\* every directory above e lets the walk descend
RECURSIVE Reachable(_)
Reachable(e) ==
    \/ Tree[e].parent = 0
    \/ /\ Tree[e].parent \in Dirs
       /\ callback(revision, opt, Tree[e].parent, FALSE, FALSE).ret = "nil"
       /\ Reachable(Tree[e].parent)

\* the files the Filter admits
Admitted ==
    {f \in Files : Reachable(f) /\ callback(revision, opt, f, FALSE, FALSE).act = "add"}

RECURSIVE SumSize(_)
SumSize(S) ==
    IF S = {} THEN 0
    ELSE LET f == CHOOSE x \in S : TRUE
         IN  Tree[f].size + SumSize(S \ {f})

RECURSIVE SumStat(_, _)
SumStat(m, K) ==
    IF K = {} THEN 0
    ELSE LET k == CHOOSE x \in K : TRUE
         IN  m[k].Size + SumStat(m, K \ {k})

Returned == runPc = "returned"
GotStats == result.kind = "stats"
Stats == result.stats
FileMode == ~opt.DirsMode

\* the path under which file f is listed in Stats.TopFiles
shown(f) == TrimPrefix(ToSlash(Tree[f].path), <<".", "/">>)
InTop(f) == \E i \in 1..Len(Stats.TopFiles) : Stats.TopFiles[i].Path = shown(f)
TopSizes == {Stats.TopFiles[i].Size : i \in 1..Len(Stats.TopFiles)}

\* position of f in the order of arrival at the collector
Arrived(f) == CHOOSE i \in 1..Len(arrival) : arrival[i] = f

(***************************************************************************)
(* C1: in file mode the returned FileCount is the number of files the      *)
(* Filter admits and TotalBytes the sum of their sizes, whatever the       *)
(* interleaving of the concurrent callbacks.                               *)
(***************************************************************************)
C1_NoLostUpdate ==
    (GotStats /\ FileMode) =>
        /\ Stats.FileCount = Cardinality(Admitted)
        /\ Stats.TotalBytes = SumSize(Admitted)

C1_Witness ==
    /\ GotStats /\ FileMode
    /\ Cardinality(Admitted) = 4
    /\ Stats.FileCount = 4
    /\ Stats.TotalBytes = 22

(***************************************************************************)
(* C2: every (count, bytes) pair the reporter hands to the hook is the     *)
(* collector's (fileCount, totalBytes) after a whole number of completed   *)
(* adds.                                                                   *)
(***************************************************************************)
C2_SampleIsCommitted == rpc = "hook" => sample \in commits

(***************************************************************************)
(* C3: in file mode every admitted file missing from Stats.TopFiles is no  *)
(* larger than the smallest entry of Stats.TopFiles.                       *)
(***************************************************************************)
C3_TopHoldsLargest ==
    (GotStats /\ FileMode) =>
        \A f \in Admitted :
            ~InTop(f) =>
                /\ Stats.TopFiles # << >>
                /\ \A v \in TopSizes : Tree[f].size <= v

C3_Witness ==
    /\ GotStats /\ FileMode
    /\ \E f \in Admitted : ~InTop(f)
    /\ \E f \in Admitted : InTop(f)

(***************************************************************************)
(* C4: in file mode, whenever no add is in progress, and in the returned   *)
(* Stats, the Size fields of the category map add up to the byte total.    *)
(***************************************************************************)
C4_CategorySizesSumToTotal ==
    /\ (runPc = "walk" /\ ~c.directoryMode /\ mu = 0) =>
           SumStat(c.extStats, DOMAIN c.extStats) = c.totalBytes
    /\ (GotStats /\ FileMode) =>
           SumStat(Stats.ExtStats, DOMAIN Stats.ExtStats) = Stats.TotalBytes

C4_Witness ==
    /\ runPc = "walk" /\ ~c.directoryMode /\ mu = 0
    /\ Cardinality(DOMAIN c.extStats) >= 2
    /\ \E k \in DOMAIN c.extStats : c.extStats[k].Count >= 2
    /\ c.totalBytes > 0

(***************************************************************************)
(* C5: if the caller cancels while the walk is running (callbacks still    *)
(* queued or in progress), Run returns the canceled error and no Stats.    *)
(***************************************************************************)
C5_CancelMidWalkFails ==
    (Returned /\ cancelAt = "midwalk") =>
        (result.kind = "error" /\ result.err = "Canceled")

(***************************************************************************)
(* What the aggregate has to be, computed from the admitted set alone.     *)
(***************************************************************************)
\* category of an admitted file: its extension, or its directory in
\* directory mode
keyOf(f) ==
    LET a == callback(revision, opt, f, FALSE, FALSE)
    IN  IF opt.DirsMode THEN a.path ELSE a.ext

ExpectedMap ==
    [k \in {keyOf(f) : f \in Admitted} |->
        LET members == {f \in Admitted : keyOf(f) = k}
        IN  ExtStat(Cardinality(members), SumSize(members))]

\* the sizes competing for the top list: files, or directory totals
Contenders ==
    IF opt.DirsMode
    THEN {<<k, ExpectedMap[k].Size>> : k \in DOMAIN ExpectedMap}
    ELSE {<<f, Tree[f].size>> : f \in Admitted}

\* the effective top-N, from the value the caller configured
Effective == IF optArg.TopN > 0 THEN optArg.TopN ELSE 20

\* how often size v occurs among the Effective largest contenders
ExpectedTimes(v) ==
    LET k  == Min(Effective, Cardinality(Contenders))
        gt == Cardinality({x \in Contenders : x[2] > v})
        eq == Cardinality({x \in Contenders : x[2] = v})
        room == k - gt
    IN  IF room <= 0 THEN 0 ELSE Min(eq, room)

\* how often size v occurs in Stats.TopFiles
ListedTimes(v) ==
    Cardinality({i \in 1..Len(Stats.TopFiles) : Stats.TopFiles[i].Size = v})

(***************************************************************************)
(* C6: the final category map, FileCount, TotalBytes and the multiset of   *)
(* sizes in the top list depend on the admitted set only, not on the order *)
(* or interleaving of the adds.                                            *)
(***************************************************************************)
C6_OrderInvariant ==
    GotStats =>
        /\ c.extStats = ExpectedMap
        /\ FileMode => Stats.ExtStats = ExpectedMap
        /\ Stats.FileCount =
              IF FileMode THEN Cardinality(Admitted)
              ELSE Cardinality(DOMAIN ExpectedMap)
        /\ Stats.TotalBytes = SumSize(Admitted)
        /\ \A v \in TopSizes \cup {x[2] : x \in Contenders} :
              ListedTimes(v) = ExpectedTimes(v)

\* a run whose adds arrived in an order that lists the largest file first
\* and evicts later
C6_Witness ==
    /\ GotStats /\ FileMode
    /\ optArg.TopN = 2
    /\ Len(arrival) = 4
    /\ arrival[1] = 6
    /\ arrival[4] = 4

(***************************************************************************)
(* C7 as claimed: of two admitted files of equal size of which exactly one *)
(* is in the final list, the listed one arrived first.                     *)
(***************************************************************************)
C7_FirstSeenWinsTies ==
    (GotStats /\ FileMode) =>
        \A f, g \in Admitted :
            (Tree[f].size = Tree[g].size /\ InTop(f) /\ ~InTop(g)) =>
                Arrived(f) < Arrived(g)

(***************************************************************************)
(* C7 amended: in the heap collector an add removes an entry from the      *)
(* top-N structure only when it inserts a strictly larger one, so a later  *)
(* candidate of equal size never displaces an entry.                       *)
(***************************************************************************)
C7_EvictionNeedsStrictlyLarger ==
    [][(revision = "heap" /\ mu # 0) =>
          \A old \in Range(c.topFiles) \ Range(c'.topFiles) :
              \E new \in Range(c'.topFiles) \ Range(c.topFiles) :
                  new.Size > old.Size]_vars

\* an add has just discarded a candidate as large as the minimum of the full
\* structure
C7_Witness ==
    /\ revision = "heap" /\ ~c.directoryMode
    /\ Len(c.topFiles) = c.topN
    /\ \E f \in Files :
          /\ pc[f] = "unlock"
          /\ Tree[f].size = c.topFiles[1].Size
          /\ \A i \in 1..Len(c.topFiles) : c.topFiles[i].Path # Tree[f].path

(***************************************************************************)
(* C8: Stats.TopFiles is never longer than the effective top-N nor than    *)
(* the number of admitted entries (files, or distinct directories in       *)
(* directory mode).                                                        *)
(***************************************************************************)
AdmittedEntries ==
    IF FileMode THEN Cardinality(Admitted)
    ELSE Cardinality({Tree[f].parent : f \in Admitted})

C8_TopLengthBounded ==
    GotStats => Len(Stats.TopFiles) <= Min(Effective, AdmittedEntries)

C8_Witness ==
    /\ GotStats
    /\ Len(Stats.TopFiles) = Effective
    /\ Effective < AdmittedEntries

(***************************************************************************)
(* C9: the effective top-N is the configured TopN when that is positive    *)
(* and 20 otherwise; it is the collector's capacity and the returned       *)
(* Stats.TopN.                                                             *)
(***************************************************************************)
C9_EffectiveTopN ==
    /\ (rootStat = "dir" /\ runPc \notin {"cli", "start"}) =>
           /\ opt.TopN = Effective
           /\ c.topN = Effective
           /\ revision = "heap" => Len(c.topFiles) <= Effective
    /\ GotStats =>
           /\ Stats.TopN = Effective
           /\ Len(Stats.TopFiles) <= Effective

C9_Witness ==
    /\ GotStats
    /\ optArg.TopN = 0
    /\ Stats.TopN = 20
    /\ Len(Stats.TopFiles) >= 3

(***************************************************************************)
(* C10: Stats.TopFiles is in ascending order of size, in file mode and in  *)
(* directory mode.                                                         *)
(***************************************************************************)
C10_TopAscending ==
    GotStats =>
        \A i, j \in 1..Len(Stats.TopFiles) :
            i < j => Stats.TopFiles[i].Size <= Stats.TopFiles[j].Size

C10_Witness ==
    /\ GotStats
    /\ Len(Stats.TopFiles) >= 3
    /\ Stats.TopFiles[1].Size < Stats.TopFiles[Len(Stats.TopFiles)].Size

(***************************************************************************)
(* Position of an entry in the tree, from the parent links alone.          *)
(***************************************************************************)
\* number of path segments below the root
RECURSIVE level(_)
level(e) == IF Tree[e].parent = 0 THEN 0 ELSE 1 + level(Tree[e].parent)

\* the directories on the way from the root to e
RECURSIVE Ancestors(_)
Ancestors(e) ==
    IF Tree[e].parent = 0 THEN {}
    ELSE {Tree[e].parent} \cup Ancestors(Tree[e].parent)

\* the callback of e is running inside the collector, or has been there
Counted(e) == InCallback(e) \/ e \in Range(arrival)

\* collector.add has been called for e
Added(e) == (InCallback(e) /\ pc[e] # "addError") \/ e \in Range(arrival)

(***************************************************************************)
(* C11: with a maximum depth d > 0 no entry deeper than d reaches the      *)
(* collector, no directory deeper than d is listed, no entry beneath such  *)
(* a directory is ever visited, and the error counter counts files within  *)
(* depth only.                                                             *)
(***************************************************************************)
C11_DepthFilter ==
    opt.Depth > 0 =>
        /\ \A f \in Files : Counted(f) => level(f) <= opt.Depth
        /\ \A d \in Dirs :
              level(d) > opt.Depth => pc[d] \in {"wait", "queued", "done"}
        /\ \A e \in Entries :
              (\E d \in Ancestors(e) : level(d) > opt.Depth) => pc[e] = "wait"
        /\ c.errorCount <=
              Cardinality({f \in Files : Tree[f].infoErr /\ level(f) <= opt.Depth})

\* a directory beyond the depth was met and skipped, its children were never
\* visited, and a file at the maximum depth was counted
C11_Witness ==
    /\ GotStats
    /\ opt.Depth > 0
    /\ \E d \in Dirs :
          /\ level(d) > opt.Depth
          /\ pc[d] = "done"
          /\ \E e \in Children(d) : pc[e] = "wait"
    /\ \E f \in Range(arrival) : level(f) = opt.Depth
    /\ \E f \in Files : level(f) = opt.Depth + 1 /\ pc[f] = "done"

(***************************************************************************)
(* C12: when an exclusion pattern matches the slash form of a directory's  *)
(* path, the directory is not listed and nothing beneath it is visited, so *)
(* no file beneath it is in the byte total, the category map, the top-N    *)
(* structure or the error count.                                           *)
(***************************************************************************)
ExcludedDirs ==
    {d \in Dirs : \E i \in 1..Len(opt.Excludes) :
                     MatchString(opt.Excludes[i], ToSlash(Tree[d].path))}

Pruned == {e \in Entries : Ancestors(e) \cap ExcludedDirs # {}}

C12_ExcludedDirPruned ==
    /\ \A d \in ExcludedDirs : pc[d] \in {"wait", "queued", "done"}
    /\ \A e \in Pruned : pc[e] = "wait" /\ ~Counted(e)
    /\ c.errorCount <= Cardinality({f \in Files \ Pruned : Tree[f].infoErr})
    /\ c.totalBytes <= SumSize(Files \ Pruned)
    /\ \A i \in 1..Len(c.topFiles) :
          \E f \in Files \ Pruned :
              c.topFiles[i].Path = callback(revision, opt, f, FALSE, FALSE).path
    /\ GotStats =>
          /\ Stats.TotalBytes <= SumSize(Files \ Pruned)
          /\ Stats.ErrorCount <=
                Cardinality({f \in Files \ Pruned : Tree[f].infoErr})

\* an excluded directory holding a file that matches no pattern itself and
\* a file whose metadata cannot be read; the run ended with other files counted
C12_Witness ==
    /\ GotStats
    /\ \E d \in ExcludedDirs :
          /\ pc[d] = "done"
          /\ \E f \in FileChildren(d) :
                /\ ~shouldExcludeByPattern(Tree[f].path, opt.Excludes)
                /\ pc[f] = "wait"
          /\ \E f \in FileChildren(d) : Tree[f].infoErr
    /\ Stats.ErrorCount = 0
    /\ Stats.TotalBytes > 0

(***************************************************************************)
(* C13: the extension check admits a path iff no exclude suffix matches    *)
(* and the include set is empty or has a matching suffix; the include-     *)
(* first check of run.go and the exclude-first shouldIncludeByExtension    *)
(* both decide so, for every path of the tree and every pair of suffix     *)
(* sets, and the files that reach the collector are the ones so admitted.  *)
(***************************************************************************)
SuffixUniverse ==
    {<<".", "g", "o">>, <<"x", ".", "g", "o">>, <<"w">>, << >>}

ExtensionRule(path, include, exclude) ==
    /\ ~(\E ext \in exclude : HasSuffix(path, ext))
    /\ (include = {} \/ \E ext \in include : HasSuffix(path, ext))

\* f passes every check of the callback other than the extension check
PassesButExtension(f) ==
    /\ Reachable(f)
    /\ callback(revision, [opt EXCEPT !.Extensions = << >>], f, FALSE, FALSE).act
          = "add"

C13_ExtensionDecision ==
    /\ runPc = "start" =>
          \A include, exclude \in SUBSET SuffixUniverse :
              \A e \in Entries :
                  /\ includeThenExclude(Tree[e].path, include, exclude)
                        = ExtensionRule(Tree[e].path, include, exclude)
                  /\ shouldIncludeByExtension(Tree[e].path, include, exclude)
                        = ExtensionRule(Tree[e].path, include, exclude)
    /\ \A f \in Files :
          Added(f) => ExtensionRule(Tree[f].path, extInclude(opt.Extensions),
                                      extExclude(opt.Extensions))
    /\ GotStats =>
          \A f \in Files :
              PassesButExtension(f) =>
                  (f \in Range(arrival) <=>
                      ExtensionRule(Tree[f].path, extInclude(opt.Extensions),
                                    extExclude(opt.Extensions)))

\* a file matching an include and an exclude suffix was visited and left
\* out, another file matching the include suffix only was counted
C13_Witness ==
    /\ GotStats
    /\ \E f \in Files :
          /\ PassesButExtension(f)
          /\ \E ext \in extInclude(opt.Extensions) : HasSuffix(Tree[f].path, ext)
          /\ \E ext \in extExclude(opt.Extensions) : HasSuffix(Tree[f].path, ext)
          /\ pc[f] = "done"
          /\ f \notin Range(arrival)
    /\ \E g \in Range(arrival) :
          \E ext \in extInclude(opt.Extensions) : HasSuffix(Tree[g].path, ext)

(***************************************************************************)
(* C14: a regular file that passes the other checks is rejected by the     *)
(* size check iff its size is below the floor: a file of exactly the floor *)
(* is counted, a file one byte smaller is not.                             *)
(***************************************************************************)
\* f passes every check of the callback other than the size check
PassesButSize(f) ==
    /\ Reachable(f)
    /\ callback(revision, [opt EXCEPT !.MinSize = 0], f, FALSE, FALSE).act = "add"

C14_MinSizeBoundary ==
    /\ \A f \in Files : Added(f) => Tree[f].size >= opt.MinSize
    /\ GotStats =>
          \A f \in Files :
              PassesButSize(f) =>
                  (f \in Range(arrival) <=> Tree[f].size >= opt.MinSize)

C14_Witness ==
    /\ GotStats
    /\ opt.MinSize > 0
    /\ \E f \in Range(arrival) : Tree[f].size = opt.MinSize
    /\ \E g \in Files :
          /\ PassesButSize(g)
          /\ Tree[g].size = opt.MinSize - 1
          /\ pc[g] = "done"
          /\ g \notin Range(arrival)

(***************************************************************************)
(* Directory mode: the directories that directly hold an admitted file.    *)
(***************************************************************************)
AdmittedDirs == {Tree[f].parent : f \in Admitted}
dirTotal(d) == SumSize({f \in Admitted : Tree[f].parent = d})

\* the directory relative to the root, as the top list names it
dirShown(d) == Clean(ToSlash(Tree[d].path))

(***************************************************************************)
(* C15: in directory mode Stats.FileCount is the number of distinct        *)
(* directories that directly contain an admitted file.                     *)
(***************************************************************************)
C15_DirModeCountsDirectories ==
    (GotStats /\ opt.DirsMode) => Stats.FileCount = Cardinality(AdmittedDirs)

(***************************************************************************)
(* C16: in directory mode every entry of the top list is a directory with  *)
(* the sum of the sizes of the admitted files directly in it, a directory  *)
(* missing from the list has a total no larger than the smallest listed,   *)
(* and the per-extension map of the Stats is empty.                        *)
(***************************************************************************)
C16_DirTopFromTotals ==
    (GotStats /\ opt.DirsMode) =>
        /\ \A i \in 1..Len(Stats.TopFiles) :
              \E d \in AdmittedDirs :
                  /\ dirShown(d) = Stats.TopFiles[i].Path
                  /\ dirTotal(d) = Stats.TopFiles[i].Size
        /\ \A d \in AdmittedDirs :
              (\A i \in 1..Len(Stats.TopFiles) :
                   Stats.TopFiles[i].Path # dirShown(d)) =>
                  /\ Stats.TopFiles # << >>
                  /\ \A v \in TopSizes : dirTotal(d) <= v
        /\ Stats.ExtStats = EmptyMap

(***************************************************************************)
(* C17: every per-entry I/O error, a directory listing reported to the     *)
(* callback with an error or a file whose metadata cannot be read, is      *)
(* counted once: a run that is not cancelled returns Stats, and            *)
(* Stats.ErrorCount is the number of these errors.                         *)
(***************************************************************************)
IOErrors ==
    {d \in Dirs : /\ Tree[d].walkErr
                  /\ Reachable(d)
                  /\ callback(revision, opt, d, FALSE, FALSE).ret = "nil"}
    \cup {f \in Files : /\ Reachable(f)
                        /\ callback(revision, opt, f, FALSE, FALSE).act = "addError"}

C17_EveryErrorCounted ==
    /\ (Returned /\ rootStat = "dir" /\ cancelAt = "never"
          /\ \A i \in 1..Len(optArg.Excludes) : optArg.Excludes[i].ok) => GotStats
    /\ GotStats => Stats.ErrorCount = Cardinality(IOErrors)

(***************************************************************************)
(* C18: when the root is missing or not a directory, or an exclusion       *)
(* pattern does not compile, no entry is ever visited, the collector stays *)
(* as constructed (no add, no addError, no finalize), and Run returns an   *)
(* error and no Stats.                                                     *)
(***************************************************************************)
FatalConfig ==
    \/ rootStat # "dir"
    \/ \E i \in 1..Len(optArg.Excludes) : ~optArg.Excludes[i].ok

C18_FatalConfigFailsFast ==
    FatalConfig =>
        /\ \A e \in Entries : pc[e] = "wait"
        /\ c \in {newCollector(0, FALSE), newCollector(Effective, optArg.DirsMode)}
        /\ mu \notin Entries
        /\ arrival = << >>
        /\ finalizeCalls = 0
        /\ Returned => (result.kind = "error" /\ result.stats = NoStats)

\* Run has built the collector and then failed on the pattern
C18_Witness ==
    /\ Returned
    /\ rootStat = "dir"
    /\ FatalConfig
    /\ result.err = "compiling exclusion pattern"
    /\ c = newCollector(Effective, optArg.DirsMode)

(***************************************************************************)
(* C19: finalize is called at most once; when Run has returned it has been *)
(* called iff the walk ran and returned no error; at the call no callback  *)
(* is running or due; it is not called when the walk returns an error,     *)
(* the canceled error included.                                            *)
(***************************************************************************)
C19_FinalizeOnceAfterWalk ==
    /\ finalizeCalls <= 1
    /\ ~Returned => finalizeCalls = 0
    /\ Returned =>
          (finalizeCalls = 1 <=> (pc[RootEntry] # "wait" /\ walkErr = "nil"))
    /\ finalizeCalls = 1 =>
          /\ GotStats
          /\ \A e \in Entries : ~InCallback(e) /\ pc[e] \notin {"queued", "readErr"}
          /\ \A d \in Dirs : ~busy(d)
    /\ (Returned /\ result.kind = "error") => finalizeCalls = 0

\* finalize has run after a walk in which two workers were adding
C19_Witness ==
    /\ finalizeCalls = 1
    /\ GotStats
    /\ Len(arrival) >= 3
    /\ \E i \in 1..(Len(arrival) - 1) :
          Tree[arrival[i]].parent # Tree[arrival[i + 1]].parent

(***************************************************************************)
(* C20 as claimed: once the walk is over no step changes the collector.    *)
(***************************************************************************)
WalkOver == runPc \in {"walk", "returned"} /\ Quiescent

C20_NoMutationAfterWalk == [][WalkOver => c' = c]_vars

(***************************************************************************)
(* C20 amended: once the walk is over the counters and the category map    *)
(* of the collector never change; the top-N structure is changed only by   *)
(* the one call of finalize, in file mode, which drains it (heap           *)
(* collector) or sorts and truncates it (sort collector).                  *)
(***************************************************************************)
C20_OnlyFinalizeChangesTop ==
    [][WalkOver =>
          /\ c'.fileCount = c.fileCount
          /\ c'.totalBytes = c.totalBytes
          /\ c'.errorCount = c.errorCount
          /\ c'.extStats = c.extStats
          /\ c'.topN = c.topN
          /\ c'.directoryMode = c.directoryMode
          /\ c'.topFiles # c.topFiles =>
                /\ finalizeCalls' = finalizeCalls + 1
                /\ ~c.directoryMode]_vars

\* finalize has drained the heap of a collector that counted files
C20_Witness ==
    /\ GotStats /\ FileMode
    /\ revision = "heap"
    /\ c.fileCount >= 2
    /\ c.topFiles = << >>
    /\ Len(Stats.TopFiles) >= 2

(***************************************************************************)
(* C21: the collector's counters are monotone: no step of any execution    *)
(* lowers or resets fileCount, totalBytes or errorCount, and the sample    *)
(* the reporter is about to hand to the hook is, in both components, at    *)
(* least the sample it handed over before.                                 *)
(***************************************************************************)
C21_CountersMonotone ==
    [][/\ c'.fileCount >= c.fileCount
       /\ c'.totalBytes >= c.totalBytes
       /\ c'.errorCount >= c.errorCount
       /\ rpc' = "hook" => /\ sample'[1] >= delivered[1]
                           /\ sample'[2] >= delivered[2]]_vars

\* a second sample, larger than the first, is about to be delivered
C21_Witness ==
    /\ rpc = "hook"
    /\ ticks = 2
    /\ delivered[1] >= 1
    /\ sample[1] > delivered[1]
    /\ sample[2] > delivered[2]

(***************************************************************************)
(* C22: the reporter only observes.  No step of the reporter goroutine     *)
(* (reading the counters, calling the hook, stopping) changes a field of   *)
(* the collector, and a run with a hook returns the counters, the category *)
(* map and the top sizes that follow from the inputs alone, which are the  *)
(* ones the same run returns without a hook.                               *)
(***************************************************************************)
\* a step of the reporter goroutine, once Run has started it
ReporterStep == runPc \notin {"cli", "start"} /\ reporter' # reporter

\* the files whose d.Info() fails, each counted once
InfoErrors ==
    {f \in Files : /\ Reachable(f)
                   /\ callback(revision, opt, f, FALSE, FALSE).act = "addError"}

C22_ReporterObservational ==
    /\ [][ReporterStep => c' = c]_vars
    /\ [](hook /\ GotStats =>
             /\ Stats.TotalBytes = SumSize(Admitted)
             /\ Stats.ErrorCount = Cardinality(InfoErrors)
             /\ Stats.FileCount = IF FileMode THEN Cardinality(Admitted)
                                  ELSE Cardinality(DOMAIN ExpectedMap)
             /\ c.extStats = ExpectedMap
             /\ FileMode => Stats.ExtStats = ExpectedMap
             /\ \A x \in Contenders : ListedTimes(x[2]) = ExpectedTimes(x[2])
             /\ Len(Stats.TopFiles) = Min(Effective, Cardinality(Contenders)))

\* the hook was called during the walk and the run returned its Stats
C22_Witness ==
    /\ hook /\ GotStats
    /\ ticks = 2
    /\ delivered[1] = 1
    /\ Stats.FileCount = 2
    /\ Stats.TotalBytes = 14

(***************************************************************************)
(* C23: the reporter never blocks the walker.  The reporter does not hold  *)
(* c.mu while the hook runs, so even when a call of the hook never         *)
(* returns, no callback stays inside add for ever and Run returns.         *)
(***************************************************************************)
C23_ReporterNeverBlocks ==
    /\ [](rpc = "hook" => mu # ReporterLock)
    /\ <>[](Returned /\ \A f \in Entries : ~InCallback(f))

\* the locking reporter is in a call of the hook that has not returned, an
\* add holds the lock meanwhile
C23_Witness ==
    /\ revision = "sort"
    /\ rpc = "hook"
    /\ \E f \in Files : mu = f /\ pc[f] = "stat"

(***************************************************************************)
(* C24: the reporter ends with the run.  It stops only once the derived    *)
(* context is cancelled, which every return of Run brings about, and,      *)
(* calls of the hook returning, a reporter that was started does stop.     *)
(***************************************************************************)
C24_ReporterStops ==
    /\ [](rpc = "stopped" => Done)
    /\ []((hook /\ rootStat = "dir" /\ runPc \notin {"cli", "start"})
             => rpc # "off")
    /\ <>[](rpc \in {"off", "stopped"})

\* the caller never cancelled: the reporter ticked, the run returned its
\* Stats and the deferred cancel stopped the reporter
C24_Witness ==
    /\ rpc = "stopped"
    /\ GotStats
    /\ ~ctxDone
    /\ ticks >= 1

(***************************************************************************)
(* C25: without a progress hook there is no reporter: the goroutine is     *)
(* never started, the ticker never fires, no sample of the counters is     *)
(* ever taken or delivered and the reporter never holds c.mu, so that the  *)
(* collector is read by the callbacks and finalize only.                   *)
(***************************************************************************)
C25_NoHookNoReporter ==
    ~hook =>
        /\ rpc = "off"
        /\ ticks = 0
        /\ sample = <<0, 0>>
        /\ delivered = <<0, 0>>
        /\ mu # ReporterLock

\* a run without a hook has walked the tree and returned its Stats
C25_Witness ==
    /\ ~hook
    /\ GotStats
    /\ Len(arrival) >= 2
    /\ rpc = "off"

(***************************************************************************)
(* C26: whatever the filters, only regular files reach collector.add and   *)
(* only directories are pruned (answered with SkipDir); a symbolic link is *)
(* reported as an entry of its own and nothing beneath it is ever visited. *)
(***************************************************************************)
\* e lies beneath something that is not a directory
BeneathLink(e) == Tree[e].parent # 0 /\ ~Tree[Tree[e].parent].isDir

C26_OnlyRegularFilesAdmitted ==
    \A e \in Entries :
        /\ Added(e) => (Tree[e].regular /\ ~Tree[e].isDir)
        /\ callback(revision, opt, e, FALSE, FALSE).act = "add"
              => (Tree[e].regular /\ ~Tree[e].isDir)
        /\ callback(revision, opt, e, FALSE, FALSE).ret = "SkipDir"
              => Tree[e].isDir
        /\ BeneathLink(e) => pc[e] = "wait"

\* the walk is over: the link was reported and passed by, the file beneath
\* it was never visited, other files were added
C26_Witness ==
    /\ GotStats
    /\ \E e \in Entries :
          /\ BeneathLink(e) /\ Tree[e].regular
          /\ pc[Tree[e].parent] = "done"
          /\ e \notin Range(arrival)
    /\ Len(arrival) >= 1

(***************************************************************************)
(* C27: depth as documented (0 = unlimited, 1 = root only, 2 = root + 1    *)
(* level).  With no other filter active a run that returns Stats has       *)
(* added exactly the regular files the walk can list and stat that lie at  *)
(* most Depth path segments below the root, all of them for Depth 0 and    *)
(* the files directly inside the root for Depth 1.                         *)
(***************************************************************************)
NoOtherFilter ==
    opt.Excludes = << >> /\ opt.Extensions = << >> /\ opt.MinSize = 0

\* a regular file with readable metadata, every directory above it listable
Listed(f) ==
    /\ Tree[f].regular /\ ~Tree[f].infoErr
    /\ \A d \in Ancestors(f) : Tree[d].isDir /\ ~Tree[d].walkErr

WithinDepth(d) == {f \in Entries : Listed(f) /\ (d = 0 \/ level(f) <= d)}

C27_DepthSemantics ==
    (GotStats /\ NoOtherFilter) =>
        /\ Range(arrival) = WithinDepth(opt.Depth)
        /\ opt.Depth = 1 =>
              Range(arrival) = {f \in Entries : Listed(f) /\ Tree[f].parent = RootEntry}
        /\ FileMode => Stats.FileCount = Cardinality(WithinDepth(opt.Depth))

\* depth 1 on a tree with files at depths 1, 2 and 3: the file in the root
\* is the only one added
C27_Witness ==
    /\ GotStats /\ NoOtherFilter
    /\ opt.Depth = 1
    /\ Cardinality(Range(arrival)) = 1
    /\ \E f \in Entries : Listed(f) /\ level(f) = 2 /\ f \notin Range(arrival)
    /\ \E f \in Entries : Listed(f) /\ level(f) = 3 /\ f \notin Range(arrival)

(***************************************************************************)
(* C28: in directory mode with depth 1 and no other filter the run shows   *)
(* the top-level directories: every immediate subdirectory of the root     *)
(* that directly holds a file has its files counted, and no file from      *)
(* deeper down is counted.                                                 *)
(***************************************************************************)
C28_DirsDepthOneShowsTopLevel ==
    (GotStats /\ opt.DirsMode /\ opt.Depth = 1 /\ NoOtherFilter) =>
        /\ \A d \in Dirs :
              (level(d) = 1 /\ \E f \in FileChildren(d) : Listed(f)) =>
                  \A f \in FileChildren(d) : Listed(f) => f \in Range(arrival)
        /\ \A f \in Range(arrival) : level(f) <= 2

(***************************************************************************)
(* C29: the exclusion patterns the CLI passes to Run are the user's when   *)
(* --exclude was given, in directory mode too; otherwise they are empty in *)
(* directory mode and the two default patterns in file mode.  Run works    *)
(* with the patterns it is passed.                                         *)
(***************************************************************************)
PassedByCLI ==
    IF flags.changed THEN flags.exclude
    ELSE IF optArg.DirsMode THEN << >>
    ELSE DefaultExcludes

C29_DefaultExcludes ==
    (flags.used /\ runPc # "cli") =>
        /\ optArg.Excludes = PassedByCLI
        /\ opt.Excludes = PassedByCLI
        /\ ~flags.changed => flags.exclude = DefaultExcludes

\* neither --dirs nor --exclude: the defaults were in force, the file inside
\* .git was left out and the file beside .git was added
C29_Witness ==
    /\ flags.used /\ ~flags.changed /\ ~optArg.DirsMode
    /\ GotStats
    /\ opt.Excludes = DefaultExcludes
    /\ \E f \in Files : /\ Contains(Tree[f].path, <<".", "g", "i", "t", "/">>)
                         /\ Listed(f)
                         /\ pc[f] = "done"
                         /\ f \notin Range(arrival)
    /\ Len(arrival) = 1

(***************************************************************************)
(* C30: in file mode the top-N structure of the collector is bounded at    *)
(* every moment: in every reachable state, after every add, it holds at    *)
(* most the effective top-N entries.                                       *)
(***************************************************************************)
C30_TopBoundedDuringWalk ==
    (runPc \in {"compile", "walk", "returned"} /\ ~c.directoryMode) =>
        Len(c.topFiles) <= Effective

(***************************************************************************)
(* Runs with a progress hook, and the runs over the tree that holds a      *)
(* symbolic link, under fair scheduling of Run, of the workers and of the  *)
(* reporter's own steps.                                                   *)
(***************************************************************************)
InitWalk == Init /\ (hook \/ fsys = "dot")

SpecFairWalk ==
    InitWalk /\ [][Next]_vars /\ WF_vars(WalkerStep \/ ReporterOwnStep)

(***************************************************************************)
(* C31: the eviction step of add in file mode.  With fewer than N entries  *)
(* held the new entry is inserted; with N entries held and a new size      *)
(* strictly greater than the minimum, one entry of minimum size is removed *)
(* and the new one inserted; with a new size not greater than the minimum  *)
(* the structure is left as it is.  The file count and the category entry  *)
(* are updated in every case.                                              *)
(***************************************************************************)
\* how often x occurs in the sequence s
Times(s, x) == Cardinality({i \in DOMAIN s : s[i] = x})

\* the smallest size held in the non-empty structure h
MinHeld(h) == CHOOSE v \in {h[i].Size : i \in DOMAIN h} :
                 \A i \in DOMAIN h : v <= h[i].Size

\* t is s with one more occurrence of x
Inserted(s, t, x) ==
    /\ Len(t) = Len(s) + 1
    /\ \A y \in Range(s) \cup Range(t) :
          Times(t, y) = Times(s, y) + (IF y = x THEN 1 ELSE 0)

\* t is s with one entry of minimum size taken out and x put in
Replaced(s, t, x) ==
    \E y \in Range(s) :
        /\ y.Size = MinHeld(s)
        /\ Len(t) = Len(s)
        /\ \A z \in Range(s) \cup Range(t) \cup {x} :
              Times(t, z) = Times(s, z) + (IF z = x THEN 1 ELSE 0)
                                         - (IF z = y THEN 1 ELSE 0)

\* the step of the add for f that follows `c.totalBytes += size`
StatStep(f) == pc[f] = "stat" /\ pc'[f] = "unlock"

C31_EvictionStep ==
    [][\A f \in Files :
          (StatStep(f) /\ ~c.directoryMode) =>
              \E a \in {callback(revision, opt, f, FALSE, FALSE)} :
                \E x \in {FileStat(a.path, a.size)} :
                  /\ c'.fileCount = c.fileCount + 1
                  /\ statOf(c'.extStats, a.ext).Count
                        = statOf(c.extStats, a.ext).Count + 1
                  /\ statOf(c'.extStats, a.ext).Size
                        = statOf(c.extStats, a.ext).Size + a.size
                  /\ IF Len(c.topFiles) < c.topN
                     THEN Inserted(c.topFiles, c'.topFiles, x)
                     ELSE IF a.size > MinHeld(c.topFiles)
                     THEN Replaced(c.topFiles, c'.topFiles, x)
                     ELSE c'.topFiles = c.topFiles]_vars

(***************************************************************************)
(* C32: the cancellation signal is checked at each visited entry.  Every   *)
(* call of the visit callback that begins after the caller has cancelled,  *)
(* the call that reports a failed listing included, returns the canceled   *)
(* error and leaves the collector alone.                                   *)
(***************************************************************************)
\* a call of the visit callback begins for e
VisitBegins(e) == pc[e] \in {"queued", "readErr"} /\ pc'[e] # pc[e]

C32_CancelCheckedAtEachEntry ==
    [][\A e \in Entries :
          (ctxDone /\ VisitBegins(e)) =>
              /\ walkErr' = "Canceled"
              /\ c' = c
              /\ pc'[e] \notin {"addError", "lock", "load", "store", "stat",
                                 "unlock", "open", "readErr"}]_vars

(***************************************************************************)
(* C33: the filter rules are evaluated in the order depth, exclusion       *)
(* pattern, type, metadata read, minimum size, extension, and the first    *)
(* rule that matches decides.  An entry rejected by the depth, pattern or  *)
(* type rule never has its metadata read and never increments the error    *)
(* counter; an entry whose metadata cannot be read is counted as an error  *)
(* whatever its size and extension; and an entry causes at most one        *)
(* collector mutation, one add or one error increment, never both.         *)
(***************************************************************************)
RejectedByDepth(e) ==
    opt.Depth > 0 /\ calculateDepth(Tree[e].path, opt.Path) > opt.Depth
RejectedByPattern(e) == shouldExcludeByPattern(Tree[e].path, opt.Excludes)
RejectedByType(e) == Tree[e].isDir \/ ~Tree[e].regular
RejectedEarly(e) ==
    RejectedByDepth(e) \/ RejectedByPattern(e) \/ RejectedByType(e)
RejectedLate(e) ==
    \/ Tree[e].size < opt.MinSize
    \/ ~extensionAdmits(revision, Tree[e].path, opt)
AddStates == {"lock", "load", "store", "stat", "unlock"}
\* the callback is called for e, without an error, before any cancellation
VisitedLive(e) == pc[e] = "queued" /\ pc'[e] # "queued" /\ ~Done

C33_FirstMatchingRuleWins ==
    /\ [][\A e \in Entries :
            /\ VisitedLive(e) =>
                  pc'[e] \in
                    IF RejectedEarly(e) THEN {"done", "open", "readErr"}
                    ELSE IF Tree[e].infoErr THEN {"addError"}
                    ELSE IF RejectedLate(e) THEN {"done"}
                    ELSE {"lock"}
            /\ pc[e] = "addError" => pc'[e] \in {"addError", "done"}
            /\ pc[e] \in AddStates => pc'[e] \in AddStates \cup {"done"}
            /\ pc[e] = "done" => pc'[e] = "done"]_vars
    /\ [][/\ c'.errorCount # c.errorCount =>
                \E f \in Files :
                    /\ pc[f] = "addError" /\ pc'[f] = "done"
                    /\ f \notin Range(arrival')
                    /\ c'.errorCount = c.errorCount + 1
          /\ c'.fileCount # c.fileCount =>
                \E f \in Files : StatStep(f) /\ pc[f] # "addError"]_vars
    /\ [](\A e \in Entries :
            /\ Times(arrival, e) <= 1
            /\ RejectedEarly(e) => pc[e] # "addError" /\ e \notin Range(arrival)
            /\ pc[e] = "addError" => e \notin Range(arrival))

\* a run has returned Stats without an error counted although a file whose
\* metadata cannot be read was rejected by the pattern rule
C33_Witness ==
    /\ GotStats /\ cancelAt = "never"
    /\ c.errorCount = 0
    /\ \E f \in Files :
          /\ Tree[f].infoErr /\ Tree[f].regular
          /\ RejectedByPattern(f) /\ ~RejectedByDepth(f)
          /\ pc[f] = "done"

(***************************************************************************)
(* C34: the counters agree with the category map whenever no add is in     *)
(* progress.  In file mode fileCount is the sum of Count over the          *)
(* category entries.  In directory mode fileCount is the number of keys    *)
(* of the map, so the count read by the reporter is a directory count and  *)
(* the len(map) that finalize returns agrees with it, and totalBytes is    *)
(* the sum of Size over the directory entries.                             *)
(***************************************************************************)
RECURSIVE SumCount(_, _)
SumCount(m, K) ==
    IF K = {} THEN 0
    ELSE LET k == CHOOSE x \in K : TRUE
         IN  m[k].Count + SumCount(m, K \ {k})

\* no call of collector.add holds c.mu
BetweenAdds == mu \notin Entries

C34_CountersMatchMap ==
    /\ (BetweenAdds /\ ~c.directoryMode) =>
          c.fileCount = SumCount(c.extStats, DOMAIN c.extStats)
    /\ (BetweenAdds /\ c.directoryMode) =>
          /\ c.fileCount = Cardinality(DOMAIN c.extStats)
          /\ c.totalBytes = SumStat(c.extStats, DOMAIN c.extStats)
    /\ (GotStats /\ c.directoryMode) =>
          /\ Stats.FileCount = Cardinality(DOMAIN c.extStats)
          /\ Stats.FileCount = c.fileCount

\* directory mode, between two adds: two directories counted, one of them
\* holding two files, while a third file waits for the lock
C34_Witness ==
    /\ BetweenAdds /\ c.directoryMode
    /\ runPc = "walk"
    /\ c.fileCount = 2
    /\ \E k \in DOMAIN c.extStats : c.extStats[k].Count = 2
    /\ \E f \in Files : pc[f] = "lock"

(***************************************************************************)
(* C35: no call of the progress hook begins after Run has returned to its  *)
(* caller, with Stats or with an error.                                    *)
(***************************************************************************)
\* the reporter goroutine calls hook(files, bytes)
HookCalled == rpc = "hook" /\ rpc' = "select"

C35_NoHookAfterReturn == [][Returned => ~HookCalled]_vars

(***************************************************************************)
(* C36: a run that fails with a fatal-configuration error (root missing,   *)
(* root not a directory, an exclusion pattern that does not compile) never *)
(* calls the progress hook, whenever the reporter's ticker fires.          *)
(***************************************************************************)
C36_FatalConfigNoHook == [][FatalConfig => ~HookCalled]_vars

(***************************************************************************)
(* C37: the walk terminates and visits each entry at most once.  Under     *)
(* fair scheduling of the workers Run eventually returns, on every tree,   *)
(* the one with a symbolic link included; the callback is called at most   *)
(* once for an entry without an error, nothing beneath a symbolic link is  *)
(* visited, and no file is added to the collector more than once.          *)
(***************************************************************************)
Visited(e) == pc[e] \notin {"wait", "queued"}

C37_WalkTerminates ==
    /\ [][\A e \in Entries : Visited(e) => pc'[e] \notin {"wait", "queued"}]_vars
    /\ [](\A e \in Entries :
            /\ Times(arrival, e) <= 1
            /\ BeneathLink(e) => ~Visited(e))
    /\ <>[]Returned

\* Run has returned the Stats of the tree with the symbolic link: the link
\* was visited, the file beneath it was not, and two files were added
C37_Witness ==
    /\ Returned /\ GotStats
    /\ fsys = "dot"
    /\ Len(arrival) >= 2
    /\ \E e \in Entries : BeneathLink(e) /\ pc[e] = "wait"
                           /\ pc[Tree[e].parent] = "done"

(***************************************************************************)
(* C38: the table ranks from the end.  In file mode PrintTable prints at   *)
(* most Stats.TopN extension lines, for the categories with the largest    *)
(* cumulative Size, in ascending order of Size, before the top-files       *)
(* lines, which are the entries of Stats.TopFiles in their order; both     *)
(* groups are numbered len - i, so that number 1 is the largest entry and  *)
(* is printed last.  In directory mode no extension section is printed.    *)
(***************************************************************************)
IsExtLine(l) == l.kind = "ext"
IsTopLine(l) == l.kind = "top"
ExtLines == SelectSeq(stdout, IsExtLine)
TopLines == SelectSeq(stdout, IsTopLine)
Printed == stdout # << >>
\* the group g is numbered from the end and its largest entry is number 1
RankedFromEnd(g) ==
    \A i \in DOMAIN g :
        /\ g[i].rank = Len(g) + 1 - i
        /\ \A j \in DOMAIN g : i < j => g[i].size <= g[j].size
        /\ g[i].rank = 1 => (i = Len(g) /\ \A j \in DOMAIN g : g[j].size <= g[i].size)

C38_TableRanksFromEnd ==
    Printed =>
        /\ Stats.DirectoryMode =>
              /\ ExtLines = << >>
              /\ \A i \in DOMAIN stdout : stdout[i].kind # "Top extensions:"
        /\ ~Stats.DirectoryMode =>
              /\ stdout[1].kind = "Top extensions:"
              /\ Len(ExtLines) = Min(Stats.TopN, Cardinality(DOMAIN Stats.ExtStats))
              /\ \A i \in DOMAIN ExtLines : stdout[1 + i] = ExtLines[i]
              /\ \A i, j \in DOMAIN ExtLines :
                    i # j => ExtLines[i].name # ExtLines[j].name
              /\ \A i \in DOMAIN ExtLines :
                    \E k \in DOMAIN Stats.ExtStats :
                        /\ ExtLines[i].name = extLabel(k)
                        /\ ExtLines[i].size = Stats.ExtStats[k].Size
                        /\ ExtLines[i].count = Stats.ExtStats[k].Count
              /\ \A k \in DOMAIN Stats.ExtStats :
                    (\A i \in DOMAIN ExtLines : ExtLines[i].name # extLabel(k)) =>
                        \A i \in DOMAIN ExtLines :
                            Stats.ExtStats[k].Size <= ExtLines[i].size
        /\ RankedFromEnd(ExtLines)
        /\ Len(TopLines) = Len(Stats.TopFiles)
        /\ \A i \in DOMAIN TopLines :
              /\ TopLines[i].name = Stats.TopFiles[i].Path
              /\ TopLines[i].size = Stats.TopFiles[i].Size
        /\ RankedFromEnd(TopLines)

\* a table was printed in file mode with one of three categories cut off and
\* two lines in each group
C38_Witness ==
    /\ Printed /\ ~Stats.DirectoryMode
    /\ Cardinality(DOMAIN Stats.ExtStats) = 3
    /\ Len(ExtLines) = 2
    /\ Len(TopLines) = 2
    /\ ExtLines[2].rank = 1 /\ ExtLines[1].size < ExtLines[2].size
    /\ TopLines[2].rank = 1 /\ TopLines[1].size < TopLines[2].size

=============================================================================
